---- MODULE Spec2Model ----
(***************************************************************************)
(* Request execution core of the RecallBricks Python SDK.                  *)
(*                                                                         *)
(* Two classes carry the same retry loop: RecallBricks._request            *)
(* (recallbricks/client.py) and BaseAutonomousClient._request              *)
(* (recallbricks/autonomous/base.py).  One `_request` call is modelled as  *)
(* a process: every step is one iteration of `for attempt in               *)
(* range(max_retries)`, whose input is the outcome of the HTTP call the    *)
(* iteration issues (a response, or an exception of the transport).        *)
(*                                                                         *)
(* Python values are records tagged with their type in field t.  A str is  *)
(* a sequence w of text units (a character, or a run of characters taken   *)
(* as a whole); the unit "sup2" is the character U+00B2 SUPERSCRIPT TWO.   *)
(* Text the code inspects character by character (the arguments of the     *)
(* endpoint methods, the input of _sanitize_input) is a sequence of code   *)
(* points.                                                                 *)
(*                                                                         *)
(* Five specifications share the variables: Spec (one _request call of a   *)
(* constructed client), ClientSpec (construction, then endpoint methods    *)
(* with their local validation and the requests they issue), SanitizeSpec  *)
(* (_sanitize_input applied to a string, and to its output),               *)
(* ConcurrentSpec (two callers in _request on one object at once) and      *)
(* TwinSpec (one object of each class, given the same calls and the same   *)
(* transport outcomes).                                                    *)
(***************************************************************************)
EXTENDS Integers, Sequences, FiniteSets, TLC

VARIABLES
    client,          \* the class of self: "RecallBricks" or "BaseAutonomousClient"
    max_retries,     \* the parameter max_retries of _request
    attempt,         \* the loop variable of `for attempt in range(max_retries)`
    pc,              \* "new" (no object yet), "failed" (__init__ raised), "idle"
                     \* (constructed, no call running), "loop" (in the loop of
                     \* _request), "done" (the call ended)
    trace,           \* the calls of session.request() and time.sleep(), in order
    response,        \* the local `response` the call ended on
    last_exception,  \* the local `last_exception`
    result,          \* what the call returned or raised
    api_key,         \* self.api_key
    service_token,   \* self.service_token
    headers,         \* self.session.headers
    op,              \* the endpoint method running, with its arguments
    payload,         \* the `json` keyword argument handed to _request
    sanitize_value,  \* the parameter value of _sanitize_input
    max_length,      \* the parameter max_length of _sanitize_input
    sanitized,       \* the values _sanitize_input returned, in order
    frames,          \* the locals of each _request activation running concurrently
    threads          \* each concurrent caller: its position and what it observed

\* The object's attributes once constructed.
self == <<client, api_key, service_token, headers>>

\* The frame of an endpoint method.
method == <<op, payload>>

\* The frame of _sanitize_input.
sanitize == <<sanitize_value, max_length, sanitized>>

\* The activations of _request that run concurrently on the object.
concurrent == <<frames, threads>>

vars ==
    <<client, max_retries, attempt, pc, trace, response, last_exception, result,
      api_key, service_token, headers, op, payload, sanitize_value, max_length,
      sanitized, frames, threads>>

(* ------------------------------ bounds -------------------------------- *)

\* Largest max_retries a caller passes (the default budget is 3).
MaxRetries == 3

\* Longest string handed to _sanitize_input; max_length goes one beyond it.
MaxLen == 3

(* --------------------------- Python values ---------------------------- *)

None == [t |-> "None"]

Str(w) == [t |-> "str", w |-> w]

Lit(s) == Str(<<s>>)

PyInt(n) == [t |-> "int", n |-> n]

List(items) == [t |-> "list", items |-> items]

Dict(f) == [t |-> "dict", f |-> f]

EmptyDict == Dict([k \in {} |-> None])

\* An attribute the exception class does not define.
NoAttr == [t |-> "noattr"]

\* The outcome of evaluating an expression: a value, or a raised exception.
Ok(v) == [ok |-> TRUE, v |-> v]

Raised(e) == [ok |-> FALSE, exc |-> e]

(* ----------------------- str.isdigit() and int() ---------------------- *)

DecimalDigits == {"0", "1", "2", "3", "4", "5", "6", "7", "8", "9"}

\* Characters with Numeric_Type=Digit that are no decimal digits.
OtherDigits == {"sup2"}

DigitValue(c) ==
    CASE c = "0" -> 0 [] c = "1" -> 1 [] c = "2" -> 2 [] c = "3" -> 3
      [] c = "4" -> 4 [] c = "5" -> 5 [] c = "6" -> 6 [] c = "7" -> 7
      [] c = "8" -> 8 [] c = "9" -> 9

\* str.isdigit(): the string is not empty and all its characters are digits.
isdigit(s) ==
    /\ Len(s.w) > 0
    /\ \A i \in 1..Len(s.w) : s.w[i] \in DecimalDigits \cup OtherDigits

RECURSIVE DecimalValue(_)
DecimalValue(w) ==
    IF w = <<>> THEN 0
    ELSE 10 * DecimalValue(SubSeq(w, 1, Len(w) - 1)) + DigitValue(w[Len(w)])

\* int(s) of a str that isdigit() accepted: a ValueError unless every
\* character is a decimal digit.
int(s) ==
    IF \A i \in 1..Len(s.w) : s.w[i] \in DecimalDigits
    THEN Ok(DecimalValue(s.w))
    ELSE Raised("ValueError")

min(a, b) == IF a < b THEN a ELSE b

(* ------------------------- program constants -------------------------- *)

\* `max_retries: int = 3`, the default attempt budget of _request.
DefaultMaxRetries == 3

\* The cap of the rate-limit wait: min(..., 60).
RateLimitCap == 60

\* The wait taken when the reset header is no digit string: `else 60`.
DefaultWait == 60

\* The default of response.headers.get('X-RateLimit-Reset', '60').
DefaultReset == Str(<<"6", "0">>)

Clients == {"RecallBricks", "BaseAutonomousClient"}

(* ----------------------------- responses ------------------------------ *)

EmptyBody == [content |-> "empty"]

MalformedBody == [content |-> "malformed"]

JsonBody(v) == [content |-> "json", value |-> v]

\* response.json(): the decoded body, or a ValueError (JSONDecodeError).
json(resp) ==
    IF resp.body.content = "json" THEN Ok(resp.body.value) ELSE Raised("ValueError")

\* `key in data` for a str key.
contains(key, data) ==
    CASE data.t = "dict" -> Ok(key \in DOMAIN data.f)
      [] data.t = "list" -> Ok(\E i \in 1..Len(data.items) : data.items[i] = Lit(key))
      [] data.t = "str" -> Ok(\E i \in 1..Len(data.w) : data.w[i] = key)
      [] OTHER -> Raised("TypeError")

\* `data[key]` for a str key.
getitem(data, key) ==
    CASE data.t = "dict" ->
             IF key \in DOMAIN data.f THEN Ok(data.f[key]) ELSE Raised("KeyError")
      [] OTHER -> Raised("TypeError")

\* `error_data.get(key, default)`: only a dict has the method.
get(error_data, key, default) ==
    IF error_data.t = "dict"
    THEN Ok(IF key \in DOMAIN error_data.f THEN error_data.f[key] ELSE default)
    ELSE Raised("AttributeError")

\* The envelope of an error response.  `except (ValueError, KeyError)` turns
\* those two into {}; any other exception leaves the method.
_parse_error_response(resp) ==
    IF resp.body.content = "empty" THEN Ok(EmptyDict)
    ELSE LET data == json(resp) IN
         IF ~data.ok THEN Ok(EmptyDict)
         ELSE LET has == contains("error", data.v) IN
              IF ~has.ok THEN has
              ELSE IF ~has.v THEN data
              ELSE LET item == getitem(data.v, "error") IN
                   IF ~item.ok
                   THEN IF item.exc \in {"ValueError", "KeyError"}
                        THEN Ok(EmptyDict) ELSE item
                   ELSE IF item.v.t = "dict" THEN item ELSE data

\* response.headers.get('X-RateLimit-Reset', default)
headers_get(resp, default) ==
    IF resp.reset.present THEN resp.reset.value ELSE default

(* ----------------------------- exceptions ----------------------------- *)

\* RecallBricksError.__init__(message, code=None, hint=None, request_id=None)
RecallBricksError(message, code, hint, request_id) ==
    [exc |-> "RecallBricksError", message |-> message, code |-> code, hint |-> hint,
     request_id |-> request_id, status_code |-> NoAttr, retry_after |-> NoAttr]

AuthenticationError(message, code, hint, request_id) ==
    [RecallBricksError(message, code, hint, request_id)
        EXCEPT !.exc = "AuthenticationError"]

RateLimitError(message, retry_after, code, hint, request_id) ==
    [RecallBricksError(message, code, hint, request_id)
        EXCEPT !.exc = "RateLimitError", !.retry_after = retry_after]

APIError(message, status_code, code, hint, request_id) ==
    [RecallBricksError(message, code, hint, request_id)
        EXCEPT !.exc = "APIError", !.status_code = status_code]

\* ValidationError(message, field=None, code=None): no hint, no request id.
ValidationError(message, code) ==
    [RecallBricksError(message, code, None, None) EXCEPT !.exc = "ValidationError"]

\* NotFoundError(message, request_id=...): status 404 and code NOT_FOUND are fixed.
NotFoundError(message, request_id) ==
    [APIError(message, PyInt(404), Lit("NOT_FOUND"), None, request_id)
        EXCEPT !.exc = "NotFoundError"]

\* An exception of Python itself or of the transport, which carries none of
\* the SDK's attributes.
ForeignError(name) ==
    [exc |-> name, message |-> NoAttr, code |-> NoAttr, hint |-> NoAttr,
     request_id |-> NoAttr, status_code |-> NoAttr, retry_after |-> NoAttr]

\* The classes that are RecallBricksError or derive from it.
TypedErrors ==
    {"RecallBricksError", "AuthenticationError", "RateLimitError", "APIError",
     "ValidationError", "NotFoundError"}

(* ------------------- truth values, strip, slices ---------------------- *)

\* A float, in tenths.
Tenths(n) == [t |-> "float", tenths |-> n]

\* bool(v), the test of `if v:`; `not v` is its negation.
truthy(v) ==
    CASE v.t = "None" -> FALSE
      [] v.t = "str" -> Len(v.w) > 0
      [] v.t = "int" -> v.n # 0
      [] v.t = "float" -> v.tenths # 0
      [] v.t = "list" -> Len(v.items) > 0
      [] v.t = "dict" -> DOMAIN v.f # {}

\* isinstance(v, str)
isinstance_str(v) == v.t = "str"

max(a, b) == IF a > b THEN a ELSE b

\* The code points up to U+00FF that str.isspace() accepts.
Whitespace == (9..13) \cup (28..32) \cup {133, 160}

RECURSIVE lstrip(_)
lstrip(w) == IF w # <<>> /\ w[1] \in Whitespace THEN lstrip(Tail(w)) ELSE w

RECURSIVE rstrip(_)
rstrip(w) ==
    IF w # <<>> /\ w[Len(w)] \in Whitespace
    THEN rstrip(SubSeq(w, 1, Len(w) - 1)) ELSE w

\* s.strip()
strip(s) == Str(lstrip(rstrip(s.w)))

\* w[:n], a negative n counting from the end.
SliceTo(w, n) ==
    SubSeq(w, 1, IF n < 0 THEN max(Len(w) + n, 0) ELSE min(n, Len(w)))

(* -------------------------- _sanitize_input --------------------------- *)

\* The character class [\x00-\x08\x0b\x0c\x0e-\x1f\x7f].
ControlChars == (0..8) \cup {11, 12} \cup (14..31) \cup {127}

\* The class widened to every C0 control character and DEL.
re_sub_c0(w) == SelectSeq(w, LAMBDA c : c \notin (0..31) \cup {127})

\* The substitution with count=1: the first match only.
re_sub_first(w) ==
    IF \E i \in 1..Len(w) : w[i] \in ControlChars
    THEN LET i == CHOOSE i \in 1..Len(w) :
                      /\ w[i] \in ControlChars
                      /\ \A j \in 1..(i - 1) : w[j] \notin ControlChars
         IN SubSeq(w, 1, i - 1) \o SubSeq(w, i + 1, Len(w))
    ELSE w

\* re.sub(r'[\x00-\x08\x0b\x0c\x0e-\x1f\x7f]', '', value)
re_sub(w) == SelectSeq(w, LAMBDA c : c \notin ControlChars)

\* The length limit applied to the input, the characters removed afterwards.
SanitizeTruncateFirst(v, n) ==
    IF ~isinstance_str(v) THEN Raised("TypeError")
    ELSE Ok(Str(re_sub(IF Len(v.w) > n THEN SliceTo(v.w, n) ELSE v.w)))

\* _sanitize_input(value, max_length): a TypeError for a value that is no
\* str; else the control characters removed, then
\* `if len(sanitized) > max_length: sanitized = sanitized[:max_length]`.
_sanitize_input(v, n) ==
    IF ~isinstance_str(v) THEN Raised("TypeError")
    ELSE LET stripped == re_sub(v.w) IN
         Ok(Str(IF Len(stripped) > n THEN SliceTo(stripped, n) ELSE stripped))

\* `max_length: int = 10000`
DefaultMaxLength == 10000

\* max_length=256, of identifiers.
IdMaxLength == 256

\* max_length=500, of titles.
TitleMaxLength == 500

(* ---------------------------- construction ---------------------------- *)

\* The headers of a new requests.Session().
DefaultSessionHeaders ==
    ("User-Agent" :> Lit("python-requests")) @@ ("Accept" :> Lit("*/*"))

\* headers.update(d)
update(h, d) == d @@ h

ContentType == "Content-Type" :> Lit("application/json")

\* The object __init__ leaves: its attributes and the session's headers.
Object(ak, st, auth) ==
    [api_key |-> ak, service_token |-> st,
     headers |-> update(DefaultSessionHeaders, auth @@ ContentType)]

\* The check `if api_key and service_token` left out, and the key's header
\* set next to the token's.
InitAcceptsBoth(c, ak, st) ==
    IF ~truthy(ak) /\ (c # "RecallBricks" \/ ~truthy(st))
    THEN Raised(AuthenticationError(Lit("credential required"), None, None, None))
    ELSE IF c = "RecallBricks" /\ truthy(st)
    THEN Ok(Object(ak, st, IF truthy(ak)
                           THEN ("X-Service-Token" :> st) @@ ("X-API-Key" :> ak)
                           ELSE "X-Service-Token" :> st))
    ELSE Ok(Object(ak, IF c = "RecallBricks" THEN st ELSE NoAttr, "X-API-Key" :> ak))

\* The header named after the wrong credential.
InitSwapsHeaders(c, ak, st) ==
    IF ~truthy(ak) /\ (c # "RecallBricks" \/ ~truthy(st))
    THEN Raised(AuthenticationError(Lit("credential required"), None, None, None))
    ELSE IF c = "RecallBricks" /\ truthy(ak) /\ truthy(st)
    THEN Raised(AuthenticationError(Lit("not both"), None, None, None))
    ELSE IF c = "RecallBricks" /\ truthy(st)
    THEN Ok(Object(ak, st, "X-API-Key" :> st))
    ELSE Ok(Object(ak, IF c = "RecallBricks" THEN st ELSE NoAttr, "X-API-Key" :> ak))

\* RecallBricks.__init__(api_key, service_token) and
\* BaseAutonomousClient.__init__(api_key), which takes no service token.
__init__(c, ak, st) ==
    IF c = "RecallBricks"
    THEN IF ~truthy(ak) /\ ~truthy(st)
         THEN Raised(AuthenticationError(
                         Lit("Either api_key or service_token is required"),
                         None, None, None))
         ELSE IF truthy(ak) /\ truthy(st)
         THEN Raised(AuthenticationError(
                         Lit("Provide either api_key or service_token, not both"),
                         None, None, None))
         ELSE IF truthy(st)
         THEN Ok(Object(ak, st, "X-Service-Token" :> st))
         ELSE Ok(Object(ak, st, "X-API-Key" :> ak))
    ELSE IF ~truthy(ak)
         THEN Raised(AuthenticationError(Lit("api_key is required"), None, None, None))
         ELSE Ok(Object(ak, NoAttr, "X-API-Key" :> ak))

(* -------------------------- endpoint methods -------------------------- *)

\* A dict display with no entry.
NoField == [k \in {} |-> None]

\* The check left out.
user_id_never_required(st, user_id) == FALSE

\* `if self.service_token and not user_id:`, the first statement of save,
\* learn and recall.
user_id_required(st, user_id) == truthy(st) /\ ~truthy(user_id)

\* `if user_id is not None:` of save and learn: the type, the emptiness, then
\* `user_id = self._sanitize_input(user_id, max_length=256)`.
user_id_format(user_id) ==
    IF user_id.t = "None" THEN Ok(user_id)
    ELSE IF ~isinstance_str(user_id) THEN Raised("TypeError")
    ELSE IF ~truthy(strip(user_id)) THEN Raised("ValueError")
    ELSE _sanitize_input(user_id, IdMaxLength)

\* The field set whatever user_id holds.
with_user_id_always(f, user_id) == f @@ ("user_id" :> user_id)

\* `if user_id: payload["user_id"] = user_id`
with_user_id(f, user_id) ==
    IF truthy(user_id) THEN f @@ ("user_id" :> user_id) ELSE f

\* `if not isinstance(text, str): raise TypeError` and
\* `if not text.strip(): raise ValueError`, of learn and recall.
text_format(text) ==
    IF ~isinstance_str(text) THEN Raised("TypeError")
    ELSE IF ~truthy(strip(text)) THEN Raised("ValueError")
    ELSE Ok(text)

\* RecallBricks.save up to its _request call: the payload, or the exception
\* raised.  The text is not validated.
save(st, text, user_id) ==
    IF user_id_required(st, user_id) THEN Raised("ValueError")
    ELSE LET uid == user_id_format(user_id) IN
         IF ~uid.ok THEN uid
         ELSE Ok(Dict(with_user_id(
                  ("text" :> text) @@ ("source" :> Lit("api"))
                      @@ ("project_id" :> Lit("default")),
                  uid.v)))

\* RecallBricks.learn up to its _request call.
learn(st, text, user_id) ==
    IF user_id_required(st, user_id) THEN Raised("ValueError")
    ELSE IF ~text_format(text).ok THEN text_format(text)
    ELSE LET uid == user_id_format(user_id) IN
         IF ~uid.ok THEN uid
         ELSE Ok(Dict(with_user_id(
                  ("text" :> _sanitize_input(text, DefaultMaxLength).v)
                      @@ ("source" :> Lit("python-sdk")),
                  uid.v)))

\* `if not 0.0 <= min_helpfulness_score <= 1.0`
score_in_range(score) == 0 <= score.tenths /\ score.tenths <= 10

\* `limit: int = 10`
DefaultLimit == 10

\* RecallBricks.recall up to its _request call.  The user_id is sanitized
\* only here, inside `if user_id:`.
recall(st, query, user_id, score) ==
    IF user_id_required(st, user_id) THEN Raised("ValueError")
    ELSE IF ~text_format(query).ok THEN text_format(query)
    ELSE IF score.t # "None" /\ ~score_in_range(score) THEN Raised("ValueError")
    ELSE LET f == ("query" :> _sanitize_input(query, DefaultMaxLength).v)
                      @@ ("limit" :> PyInt(DefaultLimit))
                      @@ (IF score.t # "None"
                          THEN "min_helpfulness_score" :> score ELSE NoField)
         IN IF ~truthy(user_id) THEN Ok(Dict(f))
            ELSE LET uid == _sanitize_input(user_id, IdMaxLength) IN
                 IF ~uid.ok THEN uid ELSE Ok(Dict(f @@ ("user_id" :> uid.v)))

\* GoalsClient.get up to its _request call, which carries no payload.
goals_get(goal_id) ==
    IF ~truthy(goal_id) THEN Raised("ValueError") ELSE Ok(None)

\* GoalsClient.add_subgoal up to `parent = self.get(parent_goal_id)`.
add_subgoal(parent_goal_id, title) ==
    IF ~truthy(parent_goal_id) THEN Raised("ValueError")
    ELSE IF ~truthy(title) THEN Raised("ValueError")
    ELSE goals_get(parent_goal_id)

\* GoalsClient.add_subgoal after self.get() returned parent: the payload of
\* the second request, its entries evaluated in the order written.
add_subgoal_payload(parent, parent_goal_id, title, description) ==
    LET agent_id == get(parent, "agent_id", None)
        clean == _sanitize_input(title, TitleMaxLength)
    IN IF ~agent_id.ok THEN agent_id
       ELSE IF ~clean.ok THEN clean
       ELSE LET f == ("agent_id" :> agent_id.v) @@ ("title" :> clean.v)
                         @@ ("parent_goal_id" :> parent_goal_id)
            IN IF ~truthy(description) THEN Ok(Dict(f))
               ELSE LET d == _sanitize_input(description, DefaultMaxLength) IN
                    IF ~d.ok THEN d ELSE Ok(Dict(f @@ ("description" :> d.v)))

\* float('nan'), which no comparison orders.
NaN == [t |-> "nan"]

\* int and float values, which `<` and `>` compare by value.
is_number(v) == v.t \in {"int", "float", "nan"}

\* A number that is not NaN, in tenths.
num(v) == IF v.t = "int" THEN 10 * v.n ELSE v.tenths

\* a < b
less(a, b) ==
    IF ~is_number(a) \/ ~is_number(b) THEN Raised("TypeError")
    ELSE Ok(a.t # "nan" /\ b.t # "nan" /\ num(a) < num(b))

\* min(a, b) of two objects: b when b < a, else a.
builtin_min(a, b) ==
    LET lt == less(b, a) IN IF ~lt.ok THEN lt ELSE Ok(IF lt.v THEN b ELSE a)

\* max(a, b) of two objects: b when b > a, else a.
builtin_max(a, b) ==
    LET gt == less(a, b) IN IF ~gt.ok THEN gt ELSE Ok(IF gt.v THEN b ELSE a)

bounded_above_only(lo, hi, x) == builtin_min(hi, x)

\* max(lo, min(hi, x))
bounded(lo, hi, x) ==
    LET upper == builtin_min(hi, x) IN
    IF ~upper.ok THEN upper ELSE builtin_max(lo, upper.v)

\* max(0.0, min(1.0, x))
unit_interval(x) == bounded(Tenths(0), Tenths(10), x)

\* `memory_type: str = "context"`
DefaultMemoryType == Lit("context")

\* A dict display {k1: e1, k2: e2, ...}: the entries are evaluated in the
\* order written, and the first that raises ends the evaluation.
RECURSIVE display(_, _)
display(entries, f) ==
    IF entries = <<>> THEN Ok(Dict(f))
    ELSE LET e == entries[1] IN
         IF ~e[2].ok THEN e[2]
         ELSE display(Tail(entries), f @@ (e[1] :> e[2].v))

\* WorkingMemoryClient.store up to its _request call; ttl_seconds and
\* metadata are left out.
store(agent_id, content, priority) ==
    IF ~truthy(agent_id) THEN Raised("ValueError")
    ELSE IF ~truthy(content) THEN Raised("ValueError")
    ELSE display(<< <<"agent_id", _sanitize_input(agent_id, IdMaxLength)>>,
                    <<"content", _sanitize_input(content, DefaultMaxLength)>>,
                    <<"memory_type", Ok(DefaultMemoryType)>>,
                    <<"priority", unit_interval(priority)>> >>, EmptyDict.f)

\* WorkingMemoryClient.update up to its _request call; metadata is left out.
working_memory_update(memory_id, content, priority) ==
    IF ~truthy(memory_id) THEN Raised("ValueError")
    ELSE LET entries ==
                 (IF content.t # "None"
                  THEN << <<"content", _sanitize_input(content, DefaultMaxLength)>> >>
                  ELSE <<>>)
                 \o (IF priority.t # "None"
                     THEN << <<"priority", unit_interval(priority)>> >> ELSE <<>>)
             built == display(entries, EmptyDict.f)
         IN IF built.ok /\ ~truthy(built.v) THEN Raised("ValueError") ELSE built

\* GoalsClient.create up to its _request call; the optional arguments other
\* than priority are left out.
goals_create(agent_id, title, priority) ==
    IF ~truthy(agent_id) THEN Raised("ValueError")
    ELSE IF ~truthy(title) THEN Raised("ValueError")
    ELSE display(<< <<"agent_id", _sanitize_input(agent_id, IdMaxLength)>>,
                    <<"title", _sanitize_input(title, TitleMaxLength)>>,
                    <<"priority", unit_interval(priority)>> >>, EmptyDict.f)

\* GoalsClient.update_progress up to its _request call; notes are left out.
update_progress(goal_id, progress) ==
    IF ~truthy(goal_id) THEN Raised("ValueError")
    ELSE display(<< <<"progress", bounded(PyInt(0), PyInt(100), progress)>> >>,
                 EmptyDict.f)

\* UncertaintyClient.record up to its _request call; reasoning, factors and
\* metadata are left out.
record(agent_id, topic, confidence) ==
    IF ~truthy(agent_id) THEN Raised("ValueError")
    ELSE IF ~truthy(topic) THEN Raised("ValueError")
    ELSE display(<< <<"agent_id", _sanitize_input(agent_id, IdMaxLength)>>,
                    <<"topic", _sanitize_input(topic, DefaultMaxLength)>>,
                    <<"confidence", unit_interval(confidence)>> >>, EmptyDict.f)

\* UncertaintyClient.resolve up to its _request call.
resolve(uncertainty_id, resolution, new_confidence) ==
    IF ~truthy(uncertainty_id) THEN Raised("ValueError")
    ELSE display(<< <<"resolution", _sanitize_input(resolution, DefaultMaxLength)>>,
                    <<"new_confidence", unit_interval(new_confidence)>>,
                    <<"status", Ok(Lit("resolved"))>> >>, EmptyDict.f)

(* ------------------------ one loop iteration -------------------------- *)

NoResult == [kind |-> "none"]

NoResponse == [status_code |-> 0, reset |-> [present |-> FALSE], body |-> EmptyBody]

\* How an iteration ends: `continue` after time.sleep(secs), `return value`,
\* or an exception leaving _request.
Continue(secs, le) ==
    [next |-> "continue", sleep |-> <<secs>>, result |-> NoResult, last_exception |-> le]

Return(value, le) ==
    [next |-> "done", sleep |-> <<>>, result |-> [kind |-> "return", value |-> value],
     last_exception |-> le]

Raise(e, le) ==
    [next |-> "done", sleep |-> <<>>, result |-> [kind |-> "raise", e |-> e],
     last_exception |-> le]

\* Mutant of InRange: range(max_retries + 1).
InRangeInclusive(a, m) == a <= m

\* `for attempt in range(max_retries)`: the loop takes another iteration.
InRange(a, m) == a < m

\* `attempt < max_retries - 1`
HasAttemptsLeft(a, m) == a < m - 1

\* Mutant of Backoff: a fixed delay of one second.
BackoffConstant(a) == 1

\* `2 ** attempt`
Backoff(a) == 2 ^ a

\* `min(int(retry_after) if str(retry_after).isdigit() else 60, 60)`
wait_time(retry_after) ==
    IF isdigit(retry_after)
    THEN LET n == int(retry_after) IN
         IF n.ok THEN Ok(min(n.v, RateLimitCap)) ELSE n
    ELSE Ok(min(DefaultWait, RateLimitCap))

\* The default text of the RateLimitError, the one text the two classes differ in.
RateLimitMessage(c) ==
    IF c = "RecallBricks"
    THEN Lit("Rate limit exceeded. Please try again later.")
    ELSE Lit("Rate limit exceeded")

\* Mutant of RateLimited: retry_after carries the clamped wait.
RateLimitedClamped(c, resp, a, m, le) ==
    LET error_data == _parse_error_response(resp)
        wait == wait_time(headers_get(resp, DefaultReset))
    IN  IF ~error_data.ok THEN Raise(ForeignError(error_data.exc), le)
        ELSE IF ~wait.ok THEN Raise(ForeignError(wait.exc), le)
        ELSE IF HasAttemptsLeft(a, m) THEN Continue(wait.v, le)
        ELSE LET message == get(error_data.v, "message", RateLimitMessage(c)) IN
             IF ~message.ok THEN Raise(ForeignError(message.exc), le)
             ELSE Raise(RateLimitError(
                            message.v,
                            PyInt(wait.v),
                            get(error_data.v, "code", Lit("RATE_LIMIT_EXCEEDED")).v,
                            get(error_data.v, "hint", None).v,
                            get(error_data.v, "requestId", None).v), le)

\* `if response.status_code == 429:`
RateLimited(c, resp, a, m, le) ==
    LET error_data == _parse_error_response(resp)
        retry_after == headers_get(resp, DefaultReset)
        wait == wait_time(retry_after)
    IN  IF ~error_data.ok THEN Raise(ForeignError(error_data.exc), le)
        ELSE IF ~wait.ok THEN Raise(ForeignError(wait.exc), le)
        ELSE IF HasAttemptsLeft(a, m) THEN Continue(wait.v, le)
        ELSE LET message == get(error_data.v, "message", RateLimitMessage(c)) IN
             IF ~message.ok THEN Raise(ForeignError(message.exc), le)
             ELSE Raise(RateLimitError(
                            message.v,
                            retry_after,
                            get(error_data.v, "code", Lit("RATE_LIMIT_EXCEEDED")).v,
                            get(error_data.v, "hint", None).v,
                            get(error_data.v, "requestId", None).v), le)

\* `if response.status_code == 401:`
Unauthorized(resp, le) ==
    LET error_data == _parse_error_response(resp) IN
    IF ~error_data.ok THEN Raise(ForeignError(error_data.exc), le)
    ELSE LET message == get(error_data.v, "message", Lit("Invalid API key")) IN
         IF ~message.ok THEN Raise(ForeignError(message.exc), le)
         ELSE Raise(AuthenticationError(
                        message.v,
                        get(error_data.v, "code", Lit("INVALID_API_KEY")).v,
                        get(error_data.v, "hint", None).v,
                        get(error_data.v, "requestId", None).v), le)

\* `if response.status_code == 404:`
NotFound(resp, le) ==
    LET error_data == _parse_error_response(resp) IN
    IF ~error_data.ok THEN Raise(ForeignError(error_data.exc), le)
    ELSE LET message == get(error_data.v, "message", Lit("Resource not found")) IN
         IF ~message.ok THEN Raise(ForeignError(message.exc), le)
         ELSE Raise(NotFoundError(message.v, get(error_data.v, "requestId", None).v), le)

\* `if response.status_code == 400:`
BadRequest(resp, le) ==
    LET error_data == _parse_error_response(resp) IN
    IF ~error_data.ok THEN Raise(ForeignError(error_data.exc), le)
    ELSE LET message == get(error_data.v, "message", Lit("Validation error")) IN
         IF ~message.ok THEN Raise(ForeignError(message.exc), le)
         ELSE Raise(ValidationError(
                        message.v,
                        get(error_data.v, "code", Lit("VALIDATION_ERROR")).v), le)

\* `if response.status_code >= 500:`
ServerError(resp, a, m, le) ==
    IF HasAttemptsLeft(a, m) THEN Continue(Backoff(a), le)
    ELSE LET error_data == _parse_error_response(resp) IN
         IF ~error_data.ok THEN Raise(ForeignError(error_data.exc), le)
         ELSE LET message == get(error_data.v, "message", Lit("Server error")) IN
              IF ~message.ok THEN Raise(ForeignError(message.exc), le)
              ELSE Raise(APIError(
                             message.v,
                             PyInt(resp.status_code),
                             get(error_data.v, "code", Lit("SERVER_ERROR")).v,
                             get(error_data.v, "hint", None).v,
                             get(error_data.v, "requestId", None).v), le)

\* `if response.status_code >= 400:`
ClientError(resp, le) ==
    LET error_data == _parse_error_response(resp) IN
    IF ~error_data.ok THEN Raise(ForeignError(error_data.exc), le)
    ELSE LET message == get(error_data.v, "message", Lit("API request failed")) IN
         IF ~message.ok THEN Raise(ForeignError(message.exc), le)
         ELSE Raise(APIError(
                        message.v,
                        PyInt(resp.status_code),
                        get(error_data.v, "code", None).v,
                        get(error_data.v, "hint", None).v,
                        get(error_data.v, "requestId", None).v), le)

\* The decoder's failure swallowed: an empty mapping instead of the raise.
ParseBodySilent(resp, le) ==
    IF resp.body.content = "json" THEN Return(resp.body.value, le)
    ELSE Return(EmptyDict, le)

\* response.json() called whatever response.content holds.
ParseBodyAlwaysParse(resp, le) ==
    IF resp.body.content = "json" THEN Return(resp.body.value, le)
    ELSE Raise(RecallBricksError(
                   Str(<<"Invalid JSON response: ", "str(e)">>), None, None, None), le)

\* `return response.json() if response.content else {}`, a ValueError of
\* json() becoming RecallBricksError("Invalid JSON response: ...").
ParseBody(resp, le) ==
    IF resp.body.content = "empty" THEN Return(EmptyDict, le)
    ELSE LET data == json(resp) IN
         IF data.ok THEN Return(data.v, le)
         ELSE Raise(RecallBricksError(
                        Str(<<"Invalid JSON response: ", "str(e)">>), None, None, None), le)

\* The body of the `try`, once session.request() has returned a response:
\* the chain of `if response.status_code ...` tests, in the order of the code.
OnResponse(c, resp, a, m, le) ==
    IF resp.status_code = 429 THEN RateLimited(c, resp, a, m, le)
    ELSE IF resp.status_code = 401 THEN Unauthorized(resp, le)
    ELSE IF resp.status_code = 404 THEN NotFound(resp, le)
    ELSE IF resp.status_code = 400 THEN BadRequest(resp, le)
    ELSE IF resp.status_code >= 500 THEN ServerError(resp, a, m, le)
    ELSE IF resp.status_code >= 400 THEN ClientError(resp, le)
    ELSE ParseBody(resp, le)

\* Mutant of OnTimeout: the timeout is not retried.
OnTimeoutNoRetry(c, a, m) ==
    Raise(RecallBricksError(Lit("Request timeout"), Lit("TIMEOUT"), None, None), None)

\* Mutant of OnTimeout: BaseAutonomousClient does not retry a timeout.
OnTimeoutBaseNoRetry(c, a, m) ==
    IF c = "BaseAutonomousClient" THEN OnTimeoutNoRetry(c, a, m)
    ELSE IF HasAttemptsLeft(a, m) THEN Continue(Backoff(a), ForeignError("Timeout"))
    ELSE Raise(RecallBricksError(
                   Str(<<"Request timeout after ", ToString(m), " attempts">>),
                   Lit("TIMEOUT"), None, None), ForeignError("Timeout"))

\* `except requests.exceptions.Timeout`.  RecallBricks keeps the transport's
\* exception in last_exception and builds the error when the attempts are
\* used up; BaseAutonomousClient builds the error first and keeps that.
OnTimeout(c, a, m) ==
    LET e == IF c = "RecallBricks"
             THEN RecallBricksError(
                      Str(<<"Request timeout after ", ToString(m), " attempts">>),
                      Lit("TIMEOUT"), None, None)
             ELSE RecallBricksError(Lit("Request timeout"), Lit("TIMEOUT"), None, None)
        le == IF c = "RecallBricks" THEN ForeignError("Timeout") ELSE e
    IN  IF HasAttemptsLeft(a, m) THEN Continue(Backoff(a), le) ELSE Raise(e, le)

\* `except requests.exceptions.ConnectionError`
OnConnectionError(c, a, m) ==
    LET e == IF c = "RecallBricks"
             THEN RecallBricksError(
                      Str(<<"Connection error after ", ToString(m), " attempts: ", "str(e)">>),
                      Lit("CONNECTION_ERROR"), None, None)
             ELSE RecallBricksError(
                      Str(<<"Connection error: ", "str(e)">>),
                      Lit("CONNECTION_ERROR"), None, None)
        le == IF c = "RecallBricks" THEN ForeignError("ConnectionError") ELSE e
    IN  IF HasAttemptsLeft(a, m) THEN Continue(Backoff(a), le) ELSE Raise(e, le)

\* `except requests.exceptions.RequestException`: never retried.
OnRequestException(le) ==
    Raise(RecallBricksError(
              Str(<<"Network error: ", "str(e)">>), Lit("NETWORK_ERROR"), None, None), le)

\* Mutant of Iteration: the ConnectionError handler catches every
\* RequestException, so that all of them are retried.
IterationBroadExcept(c, o, a, m, le) ==
    CASE o.kind = "response" -> OnResponse(c, o.resp, a, m, le)
      [] o.kind = "Timeout" -> OnTimeout(c, a, m)
      [] OTHER -> OnConnectionError(c, a, m)

\* One iteration of the loop, given what session.request() did.
Iteration(c, o, a, m, le) ==
    CASE o.kind = "response" -> OnResponse(c, o.resp, a, m, le)
      [] o.kind = "Timeout" -> OnTimeout(c, a, m)
      [] o.kind = "ConnectionError" -> OnConnectionError(c, a, m)
      [] o.kind = "RequestException" -> OnRequestException(le)

\* The statements after the loop.  RecallBricks falls off the end of the
\* function (None); BaseAutonomousClient ends with `return {}`.
AfterLoop(c, m, le) ==
    IF le # None
    THEN IF c = "RecallBricks"
         THEN Raise(RecallBricksError(
                        Str(<<"Request failed after ", ToString(m), " attempts: ", "str(e)">>),
                        Lit("MAX_RETRIES_EXCEEDED"), None, None), le)
         ELSE Raise(le, le)
    ELSE Return(IF c = "RecallBricks" THEN None ELSE EmptyDict, le)

(* ------------------------------ inputs -------------------------------- *)

\* Status codes a server answers with: success, a status below 400 that is
\* no 2xx, each status the code names, another 4xx, and two 5xx.
Statuses == {200, 204, 304, 400, 401, 403, 404, 429, 500, 503}

Absent == [present |-> FALSE]

Present(w) == [present |-> TRUE, value |-> Str(w)]

\* Values of the X-RateLimit-Reset header: absent, empty, digit strings below
\* and above the cap, a signed number, and a digit that is no decimal digit.
ResetHeaders ==
    {Absent, Present(<<>>), Present(<<"5">>), Present(<<"9", "9", "9", "9">>),
     Present(<<"-", "5">>), Present(<<"sup2">>)}

Envelope ==
    Dict([code |-> Lit("E_CODE"), message |-> Lit("what went wrong"),
          hint |-> Lit("try this"), requestId |-> Lit("req-1")])

\* Response bodies: no content, text that is no JSON, and JSON values of
\* every type: objects with and without an `error` member, arrays, strings,
\* a number and null.
Bodies ==
    {EmptyBody, MalformedBody,
     JsonBody(EmptyDict),
     JsonBody(Dict([error |-> Envelope])),
     JsonBody(Dict([error |-> Dict([message |-> Str(<<>>), code |-> None])])),
     JsonBody(Dict([error |-> Lit("bad")])),
     JsonBody(Dict([message |-> Lit("flat message"), code |-> Lit("FLAT")])),
     JsonBody(List(<<>>)),
     JsonBody(List(<<Lit("error")>>)),
     JsonBody(Lit("Too Many Requests")),
     JsonBody(Str(<<"internal ", "error">>)),
     JsonBody(PyInt(7)),
     JsonBody(None)}

\* The code reads the reset header of a 429 only.
Responses ==
    {[status_code |-> 429, reset |-> h, body |-> b] : h \in ResetHeaders, b \in Bodies}
    \cup
    {[status_code |-> s, reset |-> Absent, body |-> b] : s \in Statuses \ {429}, b \in Bodies}

\* What session.request() raises: a timeout, a connection failure, or another
\* RequestException.
TransportErrors == {"Timeout", "ConnectionError", "RequestException"}

(* --------------------------- state machine ---------------------------- *)

RequestEvent(o) ==
    [ev |-> "request", kind |-> o.kind,
     status_code |-> IF o.kind = "response" THEN o.resp.status_code ELSE 0,
     reset |-> IF o.kind = "response" THEN o.resp.reset ELSE Absent]

SleepEvent(secs) == [ev |-> "sleep", secs |-> secs]

\* `sleep` holds the duration of the iteration's time.sleep(), if it took one.
SleepEvents(sleep) == [i \in 1..Len(sleep) |-> SleepEvent(sleep[i])]

\* No endpoint method is running.
NoOp == [name |-> "none"]

\* No _request call has been made.
NoRequest ==
    /\ max_retries = DefaultMaxRetries
    /\ attempt = 0
    /\ trace = <<>>
    /\ response = NoResponse
    /\ last_exception = None
    /\ result = NoResult

\* No endpoint method has been called.
NoMethod == op = NoOp /\ payload = None

\* No _sanitize_input call is being followed.
NoSanitize == sanitize_value = None /\ max_length = DefaultMaxLength /\ sanitized = <<>>

\* One caller at a time uses the object.
NoThreads == frames = <<>> /\ threads = <<>>

\* The object is the one c.__init__(ak, st) leaves.
Constructed(c, ak, st) ==
    LET obj == __init__(c, ak, st).v IN
    /\ client = c
    /\ api_key = obj.api_key
    /\ service_token = obj.service_token
    /\ headers = obj.headers

\* A client of either class, constructed with an API key and not yet used.
Init ==
    /\ \E c \in Clients : Constructed(c, Lit("rb_key"), None)
    /\ pc = "idle"
    /\ NoRequest
    /\ NoMethod
    /\ NoSanitize
    /\ NoThreads

\* A caller enters _request(method, endpoint, max_retries): `last_exception =
\* None`, and the loop starts at attempt 0.
Call(m) ==
    /\ pc = "idle"
    /\ max_retries' = m
    /\ attempt' = 0
    /\ pc' = "loop"
    /\ trace' = <<>>
    /\ response' = NoResponse
    /\ last_exception' = None
    /\ result' = NoResult
    /\ UNCHANGED <<self, method, sanitize, concurrent>>

\* One iteration of `for attempt in range(max_retries)`: session.request()
\* ends as o, and the iteration sleeps and continues, returns, or raises.
\* `response` keeps the response the call ended on.
Iterate(o) ==
    /\ pc = "loop"
    /\ InRange(attempt, max_retries)
    /\ LET step == Iteration(client, o, attempt, max_retries, last_exception) IN
        /\ trace' = trace \o <<RequestEvent(o)>> \o SleepEvents(step.sleep)
        /\ attempt' = IF step.next = "continue" THEN attempt + 1 ELSE attempt
        /\ pc' = IF step.next = "continue" THEN "loop" ELSE "done"
        /\ response' = IF step.next = "done" /\ o.kind = "response"
                        THEN o.resp ELSE NoResponse
        /\ last_exception' = step.last_exception
        /\ result' = step.result
    /\ UNCHANGED <<max_retries, self, method, sanitize, concurrent>>

\* session.request() returns a response.
Respond == \E resp \in Responses : Iterate([kind |-> "response", resp |-> resp])

\* session.request() raises.
TransportFails == \E k \in TransportErrors : Iterate([kind |-> k])

\* range(max_retries) is used up: the statements after the loop run.
LoopEnds ==
    /\ pc = "loop"
    /\ ~InRange(attempt, max_retries)
    /\ LET step == AfterLoop(client, max_retries, last_exception) IN
        /\ pc' = "done"
        /\ result' = step.result
    /\ UNCHANGED <<max_retries, attempt, trace, response, last_exception, self, method,
                   sanitize, concurrent>>

Next ==
    \/ \E m \in 0..MaxRetries : Call(m)
    \/ Respond
    \/ TransportFails
    \/ LoopEnds

Spec == Init /\ [][Next]_vars

(* ------------------ construction and endpoint methods ----------------- *)

\* Credentials a caller passes: none, the empty string, a credential.
Keys == {None, Str(<<>>), Lit("rb_key")}

Tokens == {None, Str(<<>>), Lit("svc_token")}

\* user_id arguments: omitted, "", " ", "\x00", "u1", and the int 7.
UserIds == {None, Str(<<>>), Str(<<32>>), Str(<<0>>), Str(<<117, 49>>), PyInt(7)}

\* text and query arguments: "", "hi", "h\x07i", and the int 123.
Texts == {Str(<<>>), Str(<<104, 105>>), Str(<<104, 7, 105>>), PyInt(123)}

\* min_helpfulness_score arguments: omitted, 0.5, 1.5.
Scores == {None, Tenths(5), Tenths(15)}

\* Goal ids: "" and "g1".
GoalIds == {Str(<<>>), Str(<<103, 49>>)}

\* Titles: "", "t", and the int 123.
Titles == {Str(<<>>), Str(<<116>>), PyInt(123)}

\* Descriptions: omitted, "d", and the int 5.
Descriptions == {None, Str(<<100>>), PyInt(5)}

\* Agent, memory and uncertainty ids: "" and "a".
AgentIds == {Str(<<>>), Str(<<97>>)}

\* Contents, topics and resolutions: omitted, "c", and the int 5.
Contents == {None, Str(<<99>>), PyInt(5)}

\* priority and confidence arguments: omitted, -0.5, 0.0, 0.5, 1.5, the
\* int 1, NaN, and "high".
Priorities ==
    {None, Tenths(-5), Tenths(0), Tenths(5), Tenths(15), PyInt(1), NaN,
     Str(<<104, 105, 103, 104>>)}

\* progress arguments: -5, 0, 50, 100, 150, 75.5, NaN, and omitted.
Progresses ==
    {PyInt(-5), PyInt(0), PyInt(50), PyInt(100), PyInt(150), Tenths(755), NaN, None}

\* What the server answers while endpoint methods are followed: a goal, no
\* content, a JSON array, an error envelope, a server error.
ClientResponses ==
    {[status_code |-> 200, reset |-> Absent,
      body |-> JsonBody(Dict([agent_id |-> Lit("agent_1")]))],
     [status_code |-> 200, reset |-> Absent, body |-> EmptyBody],
     [status_code |-> 200, reset |-> Absent, body |-> JsonBody(List(<<>>))],
     [status_code |-> 404, reset |-> Absent, body |-> JsonBody(Dict([error |-> Envelope]))],
     [status_code |-> 500, reset |-> Absent, body |-> EmptyBody]}

\* No session exists before __init__ has created one.
NoSession == [h \in {} |-> None]

\* A class about to be instantiated.
ClientInit ==
    /\ client \in Clients
    /\ api_key = NoAttr
    /\ service_token = NoAttr
    /\ headers = NoSession
    /\ pc = "new"
    /\ NoRequest
    /\ NoMethod
    /\ NoSanitize
    /\ NoThreads

\* c(api_key=ak, service_token=st): the object, or the exception raised and
\* no object.
Construct(ak, st) ==
    /\ pc = "new"
    /\ client = "BaseAutonomousClient" => st = None
    /\ LET obj == __init__(client, ak, st) IN
        /\ op' = [name |-> "__init__", at |-> IF obj.ok THEN "return" ELSE "local",
                  args |-> [api_key |-> ak, service_token |-> st]]
        /\ IF obj.ok
           THEN /\ pc' = "idle"
                /\ api_key' = obj.v.api_key
                /\ service_token' = obj.v.service_token
                /\ headers' = obj.v.headers
                /\ result' = NoResult
           ELSE /\ pc' = "failed"
                /\ result' = [kind |-> "raise", e |-> obj.exc]
                /\ UNCHANGED <<api_key, service_token, headers>>
    /\ UNCHANGED <<client, max_retries, attempt, trace, response, last_exception,
                   payload, sanitize, concurrent>>

\* The method called last is between its first request and the rest of its
\* body: add_subgoal, whose self.get() has returned.
Pending ==
    /\ pc = "done"
    /\ op.name = "add_subgoal"
    /\ op.at = "get"
    /\ result.kind = "return"

\* The method called last has returned or raised, and its caller goes on:
\* the frames of the method and of its requests are gone.
Returns ==
    /\ pc = "done"
    /\ ~Pending
    /\ pc' = "idle"
    /\ max_retries' = DefaultMaxRetries
    /\ attempt' = 0
    /\ trace' = <<>>
    /\ response' = NoResponse
    /\ last_exception' = None
    /\ result' = NoResult
    /\ op' = NoOp
    /\ payload' = None
    /\ UNCHANGED <<self, sanitize, concurrent>>

\* A method is called with the arguments of o; local is what the method
\* does before its _request call: raise, or hand a payload to _request with
\* an attempt budget of m.
Enter(o, at, local, m) ==
    /\ pc = "idle"
    /\ op' = [o EXCEPT !.at = IF local.ok THEN at ELSE "local"]
    /\ max_retries' = IF local.ok THEN m ELSE DefaultMaxRetries
    /\ attempt' = 0
    /\ trace' = <<>>
    /\ response' = NoResponse
    /\ last_exception' = None
    /\ pc' = IF local.ok THEN "loop" ELSE "done"
    /\ payload' = IF local.ok THEN local.v ELSE None
    /\ result' = IF local.ok THEN NoResult
                 ELSE [kind |-> "raise", e |-> ForeignError(local.exc)]
    /\ UNCHANGED <<self, sanitize, concurrent>>

Method(name, args) == [name |-> name, at |-> "call", args |-> args]

\* client.save(text, user_id=user_id, max_retries=m)
Save(text, user_id, m) ==
    /\ client = "RecallBricks"
    /\ Enter(Method("save", [text |-> text, user_id |-> user_id]), "request",
             save(service_token, text, user_id), m)

\* client.learn(text, user_id=user_id, max_retries=m)
Learn(text, user_id, m) ==
    /\ client = "RecallBricks"
    /\ Enter(Method("learn", [text |-> text, user_id |-> user_id]), "request",
             learn(service_token, text, user_id), m)

\* client.recall(query, user_id=user_id, min_helpfulness_score=score)
Recall(query, user_id, score) ==
    /\ client = "RecallBricks"
    /\ Enter(Method("recall", [text |-> query, user_id |-> user_id, score |-> score]),
             "request", recall(service_token, query, user_id, score),
             DefaultMaxRetries)

\* goals.get(goal_id), goals a GoalsClient, which is a BaseAutonomousClient.
GetGoal(goal_id) ==
    /\ client = "BaseAutonomousClient"
    /\ Enter(Method("get", [goal_id |-> goal_id]), "request", goals_get(goal_id),
             DefaultMaxRetries)

\* goals.add_subgoal(parent_goal_id, title, description), up to the end of
\* its self.get() call.
AddSubgoal(parent_goal_id, title, description) ==
    /\ client = "BaseAutonomousClient"
    /\ Enter(Method("add_subgoal", [parent_goal_id |-> parent_goal_id,
                                    title |-> title, description |-> description]),
             "get", add_subgoal(parent_goal_id, title), DefaultMaxRetries)

\* self.get() has returned the parent: add_subgoal builds its payload, which
\* may raise, and calls _request a second time.
AddSubgoalContinues ==
    /\ Pending
    /\ LET local == add_subgoal_payload(result.value, op.args.parent_goal_id,
                                        op.args.title, op.args.description) IN
        /\ op' = [op EXCEPT !.at = IF local.ok THEN "request" ELSE "local"]
        /\ attempt' = 0
        /\ response' = NoResponse
        /\ last_exception' = None
        /\ pc' = IF local.ok THEN "loop" ELSE "done"
        /\ payload' = IF local.ok THEN local.v ELSE None
        /\ result' = IF local.ok THEN NoResult
                     ELSE [kind |-> "raise", e |-> ForeignError(local.exc)]
    /\ UNCHANGED <<max_retries, trace, self, sanitize, concurrent>>

\* working_memory.store(agent_id, content, priority=priority)
Store(agent_id, content, priority) ==
    /\ client = "BaseAutonomousClient"
    /\ Enter(Method("store", [agent_id |-> agent_id, content |-> content,
                              priority |-> priority]),
             "request", store(agent_id, content, priority), DefaultMaxRetries)

\* working_memory.update(memory_id, content=content, priority=priority)
Update(memory_id, content, priority) ==
    /\ client = "BaseAutonomousClient"
    /\ Enter(Method("update", [memory_id |-> memory_id, content |-> content,
                               priority |-> priority]),
             "request", working_memory_update(memory_id, content, priority),
             DefaultMaxRetries)

\* goals.create(agent_id, title, priority=priority)
Create(agent_id, title, priority) ==
    /\ client = "BaseAutonomousClient"
    /\ Enter(Method("create", [agent_id |-> agent_id, title |-> title,
                               priority |-> priority]),
             "request", goals_create(agent_id, title, priority), DefaultMaxRetries)

\* goals.update_progress(goal_id, progress)
UpdateProgress(goal_id, progress) ==
    /\ client = "BaseAutonomousClient"
    /\ Enter(Method("update_progress", [goal_id |-> goal_id, progress |-> progress]),
             "request", update_progress(goal_id, progress), DefaultMaxRetries)

\* uncertainty.record(agent_id, topic, confidence)
Record(agent_id, topic, confidence) ==
    /\ client = "BaseAutonomousClient"
    /\ Enter(Method("record", [agent_id |-> agent_id, topic |-> topic,
                               confidence |-> confidence]),
             "request", record(agent_id, topic, confidence), DefaultMaxRetries)

\* uncertainty.resolve(uncertainty_id, resolution, new_confidence)
Resolve(uncertainty_id, resolution, new_confidence) ==
    /\ client = "BaseAutonomousClient"
    /\ Enter(Method("resolve", [uncertainty_id |-> uncertainty_id,
                                resolution |-> resolution,
                                new_confidence |-> new_confidence]),
             "request", resolve(uncertainty_id, resolution, new_confidence),
             DefaultMaxRetries)

\* session.request() returns a response.
ClientResponds ==
    \E resp \in ClientResponses : Iterate([kind |-> "response", resp |-> resp])

ClientNext ==
    \/ \E ak \in Keys, st \in Tokens : Construct(ak, st)
    \/ \E text \in Texts, user_id \in UserIds, m \in 0..MaxRetries : Save(text, user_id, m)
    \/ \E text \in Texts, user_id \in UserIds, m \in 0..MaxRetries : Learn(text, user_id, m)
    \/ \E query \in Texts, user_id \in UserIds, score \in Scores :
           Recall(query, user_id, score)
    \/ \E goal_id \in GoalIds : GetGoal(goal_id)
    \/ \E parent_goal_id \in GoalIds, title \in Titles, description \in Descriptions :
           AddSubgoal(parent_goal_id, title, description)
    \/ AddSubgoalContinues
    \/ \E agent_id \in AgentIds, content \in Contents, priority \in Priorities :
           Store(agent_id, content, priority)
    \/ \E memory_id \in AgentIds, content \in Contents, priority \in Priorities :
           Update(memory_id, content, priority)
    \/ \E agent_id \in AgentIds, title \in Titles, priority \in Priorities :
           Create(agent_id, title, priority)
    \/ \E goal_id \in GoalIds, progress \in Progresses :
           UpdateProgress(goal_id, progress)
    \/ \E agent_id \in AgentIds, topic \in Contents, confidence \in Priorities :
           Record(agent_id, topic, confidence)
    \/ \E uncertainty_id \in AgentIds, resolution \in Contents,
          new_confidence \in Priorities :
           Resolve(uncertainty_id, resolution, new_confidence)
    \/ Returns
    \/ ClientResponds
    \/ TransportFails
    \/ LoopEnds

ClientSpec == ClientInit /\ [][ClientNext]_vars

(* ------------------- _sanitize_input, called alone -------------------- *)

\* Code points of the input: the ends of each range of the class (NUL, BS,
\* VT, FF, SO, US, DEL), the controls the class leaves out (TAB, LF, CR),
\* a letter, and a code point beyond ASCII (U+0080).
Chars == {0, 8, 11, 12, 14, 31, 127, 9, 10, 13, 97, 128}

\* The strings of at most n characters.
Strings(n) == UNION {[1..k -> Chars] : k \in 0..n}

\* The lengths callers pass are positive (256, 500, 10000); 0 is the least
\* length there is.
MaxLengths == 0..(MaxLen + 1)

\* A client, and a string about to be sanitized.
SanitizeInit ==
    /\ Constructed("RecallBricks", Lit("rb_key"), None)
    /\ pc = "idle"
    /\ NoRequest
    /\ NoMethod
    /\ sanitize_value \in {Str(w) : w \in Strings(MaxLen)}
    /\ max_length \in MaxLengths
    /\ sanitized = <<>>
    /\ NoThreads

\* self._sanitize_input(value, max_length)
Sanitize ==
    /\ sanitized = <<>>
    /\ sanitized' = <<_sanitize_input(sanitize_value, max_length).v>>
    /\ UNCHANGED <<max_retries, attempt, pc, trace, response, last_exception, result,
                   self, method, sanitize_value, max_length, concurrent>>

\* self._sanitize_input(sanitized, max_length), of the value the call before
\* returned.
SanitizeAgain ==
    /\ Len(sanitized) = 1
    /\ sanitized' = Append(sanitized, _sanitize_input(sanitized[1], max_length).v)
    /\ UNCHANGED <<max_retries, attempt, pc, trace, response, last_exception, result,
                   self, method, sanitize_value, max_length, concurrent>>

SanitizeNext == Sanitize \/ SanitizeAgain

SanitizeSpec == SanitizeInit /\ [][SanitizeNext]_vars

(* ------------------- concurrent calls on one object ------------------- *)

\* Two callers share the object.
Threads == {1, 2}

\* What session.request() does while calls run concurrently: success, a
\* rate limit with a reset of 5 s, a server error, a timeout.
ConcurrentOutcomes ==
    {[kind |-> "response",
      resp |-> [status_code |-> 200, reset |-> Absent, body |-> JsonBody(EmptyDict)]],
     [kind |-> "response",
      resp |-> [status_code |-> 429, reset |-> Present(<<"5">>), body |-> EmptyBody]],
     [kind |-> "response",
      resp |-> [status_code |-> 500, reset |-> Absent, body |-> EmptyBody]],
     [kind |-> "Timeout"]}

\* The locals of an activation that has just been entered with max_retries m.
Locals(m) == [max_retries |-> m, attempt |-> 0, last_exception |-> None]

\* A caller that has not called yet.
NotCalled == [pc |-> "idle", m |-> DefaultMaxRetries, outcomes |-> <<>>, trace |-> <<>>,
              result |-> NoResult]

one_activation(t) == 1

\* max_retries, attempt and last_exception are parameters and locals of
\* _request: each activation has its own, found by the caller it runs for.
activation(t) == t

\* An object that two callers are about to use.
ConcurrentInit ==
    /\ \E c \in Clients : Constructed(c, Lit("rb_key"), None)
    /\ pc = "idle"
    /\ NoRequest
    /\ NoMethod
    /\ NoSanitize
    /\ frames = [f \in Threads |-> Locals(DefaultMaxRetries)]
    /\ threads = [t \in Threads |-> NotCalled]

\* Caller t enters _request(method, endpoint, max_retries=m).
ThreadCall(t, m) ==
    /\ threads[t].pc = "idle"
    /\ frames' = [frames EXCEPT ![activation(t)] = Locals(m)]
    /\ threads' = [threads EXCEPT ![t] = [NotCalled EXCEPT !.pc = "loop", !.m = m]]
    /\ UNCHANGED <<max_retries, attempt, pc, trace, response, last_exception, result,
                   self, method, sanitize>>

\* One iteration of the loop in the activation of caller t, whose
\* session.request() ends as o; the sleep blocks this caller only.
ThreadIterate(t, o) ==
    LET f == frames[activation(t)] IN
    /\ threads[t].pc = "loop"
    /\ InRange(f.attempt, f.max_retries)
    /\ LET step == Iteration(client, o, f.attempt, f.max_retries, f.last_exception) IN
        /\ frames' = [frames EXCEPT ![activation(t)] =
                          [f EXCEPT !.attempt = IF step.next = "continue"
                                                THEN f.attempt + 1 ELSE f.attempt,
                                    !.last_exception = step.last_exception]]
        /\ threads' = [threads EXCEPT ![t] =
                           [@ EXCEPT !.pc = IF step.next = "continue" THEN "loop" ELSE "done",
                                     !.outcomes = Append(@, o),
                                     !.trace = @ \o <<RequestEvent(o)>>
                                                 \o SleepEvents(step.sleep),
                                     !.result = step.result]]
    /\ UNCHANGED <<max_retries, attempt, pc, trace, response, last_exception, result,
                   self, method, sanitize>>

\* range(max_retries) is used up in the activation of caller t.
ThreadLoopEnds(t) ==
    LET f == frames[activation(t)] IN
    /\ threads[t].pc = "loop"
    /\ ~InRange(f.attempt, f.max_retries)
    /\ threads' = [threads EXCEPT ![t] =
                       [@ EXCEPT !.pc = "done",
                                 !.result = AfterLoop(client, f.max_retries,
                                                      f.last_exception).result]]
    /\ UNCHANGED <<max_retries, attempt, pc, trace, response, last_exception, result,
                   self, method, sanitize, frames>>

ConcurrentNext ==
    \E t \in Threads :
        \/ \E m \in 0..MaxRetries : ThreadCall(t, m)
        \/ \E o \in ConcurrentOutcomes : ThreadIterate(t, o)
        \/ ThreadLoopEnds(t)

ConcurrentSpec == ConcurrentInit /\ [][ConcurrentNext]_vars

\* _request(max_retries=m) running by itself from attempt a on, with
\* session.request() ending as outcomes one after the other: its calls of
\* session.request() and time.sleep(), and how it ends (no result while
\* outcomes are still to come).
RECURSIVE _request(_, _, _, _, _)
_request(c, m, outcomes, a, le) ==
    IF ~InRange(a, m) THEN [trace |-> <<>>, result |-> AfterLoop(c, m, le).result]
    ELSE IF outcomes = <<>> THEN [trace |-> <<>>, result |-> NoResult]
    ELSE LET step == Iteration(c, Head(outcomes), a, m, le)
             events == <<RequestEvent(Head(outcomes))>> \o SleepEvents(step.sleep)
         IN IF step.next = "continue"
            THEN LET rest == _request(c, m, Tail(outcomes), a + 1, step.last_exception)
                 IN [trace |-> events \o rest.trace, result |-> rest.result]
            ELSE [trace |-> events, result |-> step.result]

(* ----------------- the two classes, side by side ---------------------- *)

\* One object of each class, constructed alike and not yet used; the
\* attributes followed are those of the RecallBricks object.
TwinInit ==
    /\ Constructed("RecallBricks", Lit("rb_key"), None)
    /\ pc = "idle"
    /\ NoRequest
    /\ NoMethod
    /\ NoSanitize
    /\ frames = [c \in Clients |-> Locals(DefaultMaxRetries)]
    /\ threads = [c \in Clients |-> NotCalled]

\* The activation of class c can run an iteration of its loop.
InLoop(c) ==
    threads[c].pc = "loop" /\ InRange(frames[c].attempt, frames[c].max_retries)

\* The activation of class c has used up range(max_retries).
PastLoop(c) ==
    threads[c].pc = "loop" /\ ~InRange(frames[c].attempt, frames[c].max_retries)

\* _request(method, endpoint, max_retries=m) is called on both objects.
TwinCall(m) ==
    /\ \A c \in Clients : threads[c].pc = "idle"
    /\ frames' = [c \in Clients |-> Locals(m)]
    /\ threads' = [c \in Clients |-> [NotCalled EXCEPT !.pc = "loop", !.m = m]]
    /\ UNCHANGED <<max_retries, attempt, pc, trace, response, last_exception, result,
                   self, method, sanitize>>

\* session.request() ends as o for both objects: each activation that is in
\* its loop runs one iteration.
TwinIterate(o) ==
    /\ \E c \in Clients : InLoop(c)
    /\ frames' =
           [c \in Clients |->
               IF ~InLoop(c) THEN frames[c]
               ELSE LET f == frames[c]
                        step == Iteration(c, o, f.attempt, f.max_retries,
                                          f.last_exception)
                    IN [f EXCEPT !.attempt = IF step.next = "continue"
                                             THEN f.attempt + 1 ELSE f.attempt,
                                 !.last_exception = step.last_exception]]
    /\ threads' =
           [c \in Clients |->
               IF ~InLoop(c) THEN threads[c]
               ELSE LET f == frames[c]
                        step == Iteration(c, o, f.attempt, f.max_retries,
                                          f.last_exception)
                    IN [threads[c] EXCEPT
                           !.pc = IF step.next = "continue" THEN "loop" ELSE "done",
                           !.trace = @ \o <<RequestEvent(o)>> \o SleepEvents(step.sleep),
                           !.result = step.result]]
    /\ UNCHANGED <<max_retries, attempt, pc, trace, response, last_exception, result,
                   self, method, sanitize>>

\* The statements after the loop, in each activation that has left it.
TwinLoopEnds ==
    /\ \E c \in Clients : PastLoop(c)
    /\ threads' =
           [c \in Clients |->
               IF ~PastLoop(c) THEN threads[c]
               ELSE [threads[c] EXCEPT
                        !.pc = "done",
                        !.result = AfterLoop(c, frames[c].max_retries,
                                             frames[c].last_exception).result]]
    /\ UNCHANGED <<max_retries, attempt, pc, trace, response, last_exception, result,
                   self, method, sanitize, frames>>

TwinNext ==
    \/ \E m \in 0..MaxRetries : TwinCall(m)
    \/ \E resp \in Responses : TwinIterate([kind |-> "response", resp |-> resp])
    \/ \E k \in TransportErrors : TwinIterate([kind |-> k])
    \/ TwinLoopEnds

TwinSpec == TwinInit /\ [][TwinNext]_vars

(* --------------------------- trace queries ---------------------------- *)

Requests == SelectSeq(trace, LAMBDA e : e.ev = "request")

Sleeps == SelectSeq(trace, LAMBDA e : e.ev = "sleep")

\* Number of HTTP calls the call has issued.
Calls == Len(Requests)

\* The durations slept so far, in order.
SleepSecs == [i \in 1..Len(Sleeps) |-> Sleeps[i].secs]

Done == pc = "done"

RaisedExc(name) == Done /\ result.kind = "raise" /\ result.e.exc = name

Is5xx(e) == e.kind = "response" /\ e.status_code >= 500

Is2xx(e) == e.kind = "response" /\ e.status_code \in 200..299

Is429(e) == e.kind = "response" /\ e.status_code = 429

\* The attempt index of the HTTP call at trace[i]: the calls issued before it.
AttemptIndex(i) == Cardinality({j \in 1..(i - 1) : trace[j].ev = "request"})

\* 2^0, 2^1, ..., 2^(k-1)
PowersOfTwo(k) == [i \in 1..k |-> 2 ^ (i - 1)]

\* The call returned the decoded body of the response it ended on.
ReturnedBody ==
    /\ Done
    /\ response.body.content = "json"
    /\ result = [kind |-> "return", value |-> response.body.value]

(* ------------------------------- claims ------------------------------- *)

\* C1: when the first k < max_retries attempts all get a 5xx response, the
\* call is still looping and has slept 2^0, ..., 2^(k-1) seconds, in that
\* order; when a 2xx response with a JSON body follows them, the call ends at
\* that attempt, k+1 HTTP calls issued, no further sleep, returning the body.
C1_ServerErrorsThenSuccess ==
    pc # "idle" =>
      /\ ((\A i \in 1..Calls : Is5xx(Requests[i])) /\ Calls < max_retries)
            => (pc = "loop" /\ SleepSecs = PowersOfTwo(Calls))
      /\ (/\ Calls >= 1
          /\ \A i \in 1..(Calls - 1) : Is5xx(Requests[i])
          /\ Is2xx(Requests[Calls]))
            => /\ Done
               /\ Calls <= max_retries
               /\ SleepSecs = PowersOfTwo(Calls - 1)
               /\ trace[Len(trace)].ev = "request"
               /\ response.body.content = "json" => ReturnedBody

\* 500, 500, 200 under the default budget: 3 calls, sleeps 1 s then 2 s.
C1_Witness ==
    /\ max_retries = DefaultMaxRetries
    /\ Calls = 3
    /\ Requests[1].status_code = 500 /\ Requests[2].status_code = 500
    /\ Requests[3].status_code = 200
    /\ SleepSecs = <<1, 2>>
    /\ ReturnedBody

IsDecimalString(h) ==
    /\ h.present
    /\ Len(h.value.w) > 0
    /\ \A i \in 1..Len(h.value.w) : h.value.w[i] \in DecimalDigits

IsClientErrorStatus(e) ==
    e.kind = "response" /\ e.status_code \in 400..499 /\ e.status_code # 429

\* The exception class the status table gives a 4xx status other than 429.
ClientErrorClass(status) ==
    CASE status = 401 -> "AuthenticationError"
      [] status = 404 -> "NotFoundError"
      [] status = 400 -> "ValidationError"
      [] OTHER -> "APIError"

\* C2: a response with a 4xx status other than 429, at any attempt index,
\* is the last event of the call (no sleep, no further HTTP call), and the
\* call raises AuthenticationError (401), NotFoundError (404),
\* ValidationError (400) or APIError carrying that status code (any other).
C2_ClientErrorsEndTheCall ==
    \A i \in 1..Len(trace) :
        (trace[i].ev = "request" /\ IsClientErrorStatus(trace[i])) =>
            /\ i = Len(trace)
            /\ RaisedExc(ClientErrorClass(trace[i].status_code))
            /\ result.e.exc = "APIError" => result.e.status_code = PyInt(trace[i].status_code)

\* C3: when all max_retries >= 1 attempts got a 5xx response, the call has
\* issued max_retries HTTP calls, slept 2^0, 2^1, ... (max_retries - 1
\* sleeps), and raises APIError with the status code of the last response.
C3_ServerErrorsExhausted ==
    (/\ pc # "idle"
     /\ max_retries >= 1
     /\ Calls = max_retries
     /\ \A i \in 1..Calls : Is5xx(Requests[i]))
        => /\ SleepSecs = PowersOfTwo(max_retries - 1)
           /\ RaisedExc("APIError")
           /\ result.e.status_code = PyInt(Requests[Calls].status_code)

\* C4: a 429 whose X-RateLimit-Reset is a decimal integer string d, at an
\* attempt index with attempts remaining, is followed by a sleep of exactly
\* min(d, 60) seconds.
C4_RateLimitWait ==
    \A i \in 1..Len(trace) :
        (/\ trace[i].ev = "request"
         /\ Is429(trace[i])
         /\ IsDecimalString(trace[i].reset)
         /\ AttemptIndex(i) < max_retries - 1)
            => /\ Len(trace) > i
               /\ trace[i + 1] = SleepEvent(min(DecimalValue(trace[i].reset.value.w), 60))

\* C5: a 429 with attempts remaining never ends the call, a sleep follows
\* it; a 429 on the last attempt ends it with a RateLimitError whose
\* retry_after is the reset header and whose message, code, hint and
\* request_id are those of the envelope, where the envelope has them.
C5_RateLimitExhausted ==
    \A i \in 1..Len(trace) :
        (trace[i].ev = "request" /\ Is429(trace[i])) =>
            IF AttemptIndex(i) < max_retries - 1
            THEN Len(trace) > i /\ trace[i + 1].ev = "sleep"
            ELSE /\ i = Len(trace)
                 /\ Calls = max_retries
                 /\ RaisedExc("RateLimitError")
                 /\ result.e.retry_after = headers_get(response, DefaultReset)
                 /\ LET envelope == _parse_error_response(response) IN
                     /\ envelope.ok
                     /\ envelope.v.t = "dict"
                     /\ "message" \in DOMAIN envelope.v.f
                            => result.e.message = envelope.v.f["message"]
                     /\ "code" \in DOMAIN envelope.v.f
                            => result.e.code = envelope.v.f["code"]
                     /\ "hint" \in DOMAIN envelope.v.f
                            => result.e.hint = envelope.v.f["hint"]
                     /\ "requestId" \in DOMAIN envelope.v.f
                            => result.e.request_id = envelope.v.f["requestId"]

\* C6: parsing the reset header raises nothing, the wait after a 429 is at
\* most 60 seconds whatever the header, and it is 60 seconds when the header
\* is absent or is no decimal integer string.
C6_ResetHeaderParsing ==
    /\ ~RaisedExc("ValueError")
    /\ \A i \in 1..Len(trace) :
           (trace[i].ev = "request" /\ Is429(trace[i]) /\ Len(trace) > i) =>
               /\ trace[i + 1].secs <= 60
               /\ ~IsDecimalString(trace[i].reset) => trace[i + 1].secs = 60

IsTransportFailure(e) == e.kind \in {"Timeout", "ConnectionError"}

TransportCode(kind) == IF kind = "Timeout" THEN "TIMEOUT" ELSE "CONNECTION_ERROR"

\* C7: a timeout or connection failure at attempt index a with attempts
\* remaining is followed by a sleep of 2^a seconds and the loop goes on; on
\* the last attempt it ends the call with a RecallBricksError whose code is
\* TIMEOUT, resp. CONNECTION_ERROR; a 2xx response that follows such
\* failures ends the call with that response's body ({} when it is empty).
C7_TransportFailuresRetried ==
    pc # "idle" =>
      /\ \A i \in 1..Len(trace) :
            (trace[i].ev = "request" /\ IsTransportFailure(trace[i])) =>
                IF AttemptIndex(i) < max_retries - 1
                THEN /\ Len(trace) > i
                     /\ trace[i + 1] = SleepEvent(2 ^ AttemptIndex(i))
                     /\ Len(trace) = i + 1 => pc = "loop"
                ELSE /\ i = Len(trace)
                     /\ RaisedExc("RecallBricksError")
                     /\ result.e.code = Lit(TransportCode(trace[i].kind))
      /\ (/\ Calls >= 2
          /\ \A i \in 1..(Calls - 1) : IsTransportFailure(Requests[i])
          /\ Is2xx(Requests[Calls]))
            => /\ Done
               /\ trace[Len(trace)].ev = "request"
               /\ response.body.content = "json" => ReturnedBody
               /\ response.body.content = "empty"
                      => result = [kind |-> "return", value |-> EmptyDict]

\* A timeout, then a connection failure, then success under the default
\* budget; and both failures on a last attempt.
C7_Witness ==
    \/ /\ max_retries = DefaultMaxRetries
       /\ Calls = 3
       /\ Requests[1].kind = "Timeout" /\ Requests[2].kind = "ConnectionError"
       /\ SleepSecs = <<1, 2>>
       /\ ReturnedBody
    \/ /\ max_retries = DefaultMaxRetries
       /\ Calls = 3
       /\ Requests[3].kind = "Timeout"
       /\ RaisedExc("RecallBricksError")
       /\ result.e.code = Lit("TIMEOUT")
       /\ client = "BaseAutonomousClient"

\* C8: a call that ends without having received a 2xx response raises
\* RecallBricksError or a subclass of it; it returns nothing.
C8_FailureAlwaysTyped ==
    (Done /\ ~\E i \in 1..Calls : Is2xx(Requests[i]))
        => (result.kind = "raise" /\ result.e.exc \in TypedErrors)

IsRetryable(e) == Is429(e) \/ Is5xx(e) \/ IsTransportFailure(e)

\* No more HTTP calls than max_retries; a response that is no 429 and no 5xx
\* (a 2xx among them) and an exception that is neither a timeout nor a
\* connection failure are the last event of the call, which has then
\* returned or raised.
C9_Bounded ==
    pc # "idle" =>
      /\ Calls <= max_retries
      /\ pc = "loop" => (attempt = Calls /\ result = NoResult)
      /\ Done => result.kind \in {"return", "raise"}
      /\ \A i \in 1..Len(trace) :
            (trace[i].ev = "request" /\ ~IsRetryable(trace[i]))
                => (i = Len(trace) /\ Done)

\* A step of a call in its loop either ends the call or starts the next
\* iteration, of which range(max_retries) allows max_retries at most.
C9_Progress ==
    pc = "loop" => (pc' = "done" \/ (pc' = "loop" /\ attempt' = attempt + 1))

\* C9: one call issues at most max_retries HTTP calls, none after a 2xx
\* response or a failure that is not retried, and it terminates: a call in
\* its loop can always take a step, whatever the transport does, and every
\* step ends the call or uses up one of the max_retries iterations.
C9_BoundedAndTerminates ==
    /\ [](C9_Bounded /\ (pc = "loop" => attempt <= max_retries /\ ENABLED Next))
    /\ [][C9_Progress]_vars

\* A call that used its whole default budget on retried failures of three
\* kinds and ended.
C9_Witness ==
    /\ Done
    /\ max_retries = DefaultMaxRetries
    /\ Calls = 3
    /\ Is429(Requests[1]) /\ Is5xx(Requests[2]) /\ IsTransportFailure(Requests[3])
    /\ result.kind = "raise"

\* C10: another exception of the transport, at any attempt index, is the
\* last event of the call, which raises RecallBricksError with code
\* NETWORK_ERROR: no sleep and no HTTP call follow it.
C10_OtherTransportErrorsEndTheCall ==
    \A i \in 1..Len(trace) :
        (trace[i].ev = "request" /\ trace[i].kind = "RequestException") =>
            /\ i = Len(trace)
            /\ RaisedExc("RecallBricksError")
            /\ result.e.code = Lit("NETWORK_ERROR")

\* The exception on the first of three attempts, and on the second, after a
\* retried failure.
C10_Witness ==
    /\ max_retries = DefaultMaxRetries
    /\ Calls \in {1, 2}
    /\ Requests[Calls].kind = "RequestException"
    /\ RaisedExc("RecallBricksError")
    /\ result.e.code = Lit("NETWORK_ERROR")
    /\ Len(SleepSecs) = Calls - 1

\* C11: a 2xx response whose body is non-empty and no JSON is the last event
\* of the call: no sleep and no HTTP call follow it, and the call raises the
\* base RecallBricksError (no error code), returning nothing.
C11_MalformedBodyRaises ==
    \A i \in 1..Len(trace) :
        (trace[i].ev = "request" /\ Is2xx(trace[i])) =>
            /\ i = Len(trace)
            /\ Done
            /\ response.status_code = trace[i].status_code
            /\ (response.body = MalformedBody =>
                   /\ RaisedExc("RecallBricksError")
                   /\ result.e.code = None
                   /\ result.e.message = Str(<<"Invalid JSON response: ", "str(e)">>))

\* The malformed 2xx body on the third attempt, two retried failures before.
C11_Witness ==
    /\ max_retries = DefaultMaxRetries
    /\ Calls = 3
    /\ Len(SleepSecs) = 2
    /\ Is2xx(Requests[3])
    /\ Done
    /\ response.body = MalformedBody
    /\ RaisedExc("RecallBricksError")

\* C12: a 2xx response with an empty body ends the call, which returns the
\* empty mapping: nothing is raised, the decoder's failure on an empty body
\* included.
C12_EmptyBodyReturnsEmptyMapping ==
    (/\ Done
     /\ Calls >= 1
     /\ Is2xx(Requests[Calls])
     /\ response.body = EmptyBody)
        => result = [kind |-> "return", value |-> EmptyDict]

\* A 204 with no content, on the first attempt and after a retry.
C12_Witness ==
    /\ Calls \in {1, 2}
    /\ Requests[Calls].kind = "response"
    /\ Requests[Calls].status_code = 204
    /\ Done
    /\ response.body = EmptyBody
    /\ result = [kind |-> "return", value |-> EmptyDict]

\* C13: constructing RecallBricks with neither or both of api_key and
\* service_token non-empty raises AuthenticationError and leaves no session;
\* with exactly one non-empty it succeeds, and of the two authentication
\* headers the session holds the one of that credential, with its value, and
\* not the other.
C13_ConstructionCredentials ==
    (op.name = "__init__" /\ client = "RecallBricks") =>
        LET ak == op.args.api_key
            st == op.args.service_token
        IN IF truthy(ak) = truthy(st)
           THEN /\ pc = "failed"
                /\ result.kind = "raise"
                /\ result.e.exc = "AuthenticationError"
                /\ headers = NoSession
           ELSE /\ pc = "idle"
                /\ IF truthy(st)
                   THEN /\ "X-Service-Token" \in DOMAIN headers
                        /\ headers["X-Service-Token"] = st
                        /\ "X-API-Key" \notin DOMAIN headers
                   ELSE /\ "X-API-Key" \in DOMAIN headers
                        /\ headers["X-API-Key"] = ak
                        /\ "X-Service-Token" \notin DOMAIN headers

\* A service token next to an empty api_key.
C13_Witness ==
    /\ op.name = "__init__"
    /\ client = "RecallBricks"
    /\ op.args.api_key = Str(<<>>)
    /\ op.args.service_token = Lit("svc_token")
    /\ pc = "idle"
    /\ "X-Service-Token" \in DOMAIN headers

\* The session of a constructed client holds the header of its one
\* credential, with the value passed to the constructor, no header of the
\* other credential, and Content-Type: application/json.
CredentialIntact ==
    pc \notin {"new", "failed"} =>
        /\ "Content-Type" \in DOMAIN headers
        /\ headers["Content-Type"] = Lit("application/json")
        /\ op.name = "__init__" =>
               /\ api_key = op.args.api_key
               /\ client = "RecallBricks" => service_token = op.args.service_token
        /\ IF client = "RecallBricks" /\ truthy(service_token)
           THEN /\ ~truthy(api_key)
                /\ "X-Service-Token" \in DOMAIN headers
                /\ headers["X-Service-Token"] = service_token
                /\ "X-API-Key" \notin DOMAIN headers
           ELSE /\ truthy(api_key)
                /\ "X-API-Key" \in DOMAIN headers
                /\ headers["X-API-Key"] = api_key
                /\ "X-Service-Token" \notin DOMAIN headers

\* No step of a constructed client writes its credentials or its headers.
CredentialKept ==
    pc \notin {"new", "failed"} => UNCHANGED <<api_key, service_token, headers>>

\* C14: from construction on, through every method call, request, retry and
\* failure, the session holds exactly the header of the credential the
\* client was constructed with, with that value, and Content-Type:
\* application/json; no step changes the credentials or the headers.
C14_OneCredentialForLife == []CredentialIntact /\ [][CredentialKept]_vars

\* A service-token client whose recall has failed after three requests.
C14_Witness ==
    /\ client = "RecallBricks"
    /\ op.name = "recall"
    /\ pc = "done"
    /\ Calls = 3
    /\ result.kind = "raise"
    /\ "X-API-Key" \notin DOMAIN headers
    /\ headers["X-Service-Token"] = Lit("svc_token")

\* C15: on a service-token client, save, learn and recall called with
\* user_id omitted or empty raise ValueError by their own check: no request
\* has been issued and none follows.
C15_ServiceTokenNeedsUserId ==
    (/\ op.name \in {"save", "learn", "recall"}
     /\ truthy(service_token)
     /\ op.args.user_id \in {None, Str(<<>>)})
        => /\ pc = "done"
           /\ op.at = "local"
           /\ result = [kind |-> "raise", e |-> ForeignError("ValueError")]
           /\ trace = <<>>
           /\ Calls = 0

\* recall with user_id="" on a service-token client.
C15_Witness ==
    /\ op.name = "recall"
    /\ truthy(service_token)
    /\ op.args.user_id = Str(<<>>)
    /\ pc = "done"
    /\ result = [kind |-> "raise", e |-> ForeignError("ValueError")]
    /\ Calls = 0

\* C16: on an api_key client, save and learn called without user_id (learn
\* with a text its validation accepts) raise nothing locally and hand
\* _request a payload with no user_id field; with an attempt budget above 0
\* the call has issued a request when it ends.
C16_ApiKeyUserIdOptional ==
    (/\ op.name \in {"save", "learn"}
     /\ truthy(api_key)
     /\ op.args.user_id = None
     /\ op.name = "learn" => text_format(op.args.text).ok)
        => /\ op.at = "request"
           /\ pc \in {"loop", "done"}
           /\ payload.t = "dict"
           /\ "text" \in DOMAIN payload.f
           /\ "user_id" \notin DOMAIN payload.f
           /\ (pc = "done" /\ max_retries > 0) => Calls >= 1

\* learn without user_id, answered at the first request.
C16_Witness ==
    /\ op.name = "learn"
    /\ truthy(api_key)
    /\ op.args.user_id = None
    /\ pc = "done"
    /\ Calls = 1
    /\ result.kind = "return"
    /\ "user_id" \notin DOMAIN payload.f

\* C17: a ValueError or TypeError an endpoint method raises for the shape of
\* its arguments is raised before the method has issued any request.
C17_LocalViolationsBeforeNetwork ==
    (/\ pc = "done"
     /\ op.at = "local"
     /\ result.e.exc \in {"ValueError", "TypeError"})
        => Calls = 0

\* The characters the sanitizer is to remove: 0x00-0x08, 0x0B, 0x0C,
\* 0x0E-0x1F and 0x7F.
Disallowed ==
    {0, 1, 2, 3, 4, 5, 6, 7, 8, 11, 12, 14, 15, 16, 17, 18, 19, 20, 21, 22, 23, 24,
     25, 26, 27, 28, 29, 30, 31, 127}

\* w without its disallowed characters, the others in their order.
ControlStripped(w) == SelectSeq(w, LAMBDA c : c \notin Disallowed)

\* The first n characters of w, all of w when it has no more.
FirstChars(w, n) == [i \in 1..(IF Len(w) < n THEN Len(w) ELSE n) |-> w[i]]

\* C18: sanitizing the output of _sanitize_input again, with the same
\* max_length, returns it unchanged.
C18_SanitizeIdempotent ==
    Len(sanitized) = 2 => sanitized[2] = sanitized[1]

\* A string with control characters, longer than max_length, sanitized twice.
C18_Witness ==
    /\ Len(sanitized) = 2
    /\ sanitize_value = Str(<<0, 97, 9>>)
    /\ max_length = 1
    /\ sanitized[1] # sanitize_value

\* C19: the output is no longer than max_length, and it is the first
\* max_length characters of the input without its control characters.
C19_TruncatedAfterRemoval ==
    Len(sanitized) >= 1 =>
        /\ Len(sanitized[1].w) <= max_length
        /\ sanitized[1].w = FirstChars(ControlStripped(sanitize_value.w), max_length)

\* Truncating first would leave nothing of this input.
C19_Witness ==
    /\ Len(sanitized) >= 1
    /\ sanitize_value = Str(<<0, 97, 9>>)
    /\ max_length = 1
    /\ sanitized[1] = Str(<<97>>)

\* C20: the output holds no disallowed character; it starts the input's
\* other characters, tab, line feed and carriage return among them, in
\* their order, and is all of them when they are no more than max_length.
C20_ControlCharsRemoved ==
    Len(sanitized) >= 1 =>
        LET out == sanitized[1].w
            kept == ControlStripped(sanitize_value.w)
        IN /\ \A i \in 1..Len(out) : out[i] \notin Disallowed
           /\ Len(out) <= Len(kept)
           /\ \A i \in 1..Len(out) : out[i] = kept[i]
           /\ Len(kept) <= max_length => out = kept
           /\ (\A i \in 1..Len(sanitize_value.w) : sanitize_value.w[i] \in {9, 10, 13})
                  => out = FirstChars(sanitize_value.w, max_length)

\* Tab and carriage return kept around a removed DEL.
C20_Witness ==
    /\ Len(sanitized) >= 1
    /\ sanitize_value = Str(<<9, 127, 13>>)
    /\ max_length >= 2
    /\ sanitized[1] = Str(<<9, 13>>)

\* C21: for the response an error path ended on, _parse_error_response
\* raises nothing and returns a mapping: {} for an empty body and for a body
\* that is no JSON, the `error` member when the body is an object holding
\* one that is an object, and the decoded body otherwise.
C21_ParseErrorResponseNeverThrows ==
    (Done /\ response.status_code >= 400) =>
        LET envelope == _parse_error_response(response)
            body == response.body
        IN /\ envelope.ok
           /\ envelope.v.t = "dict"
           /\ body.content \in {"empty", "malformed"} => envelope.v = EmptyDict
           /\ (body.content = "json" /\ body.value.t = "dict") =>
                  envelope.v = IF "error" \in DOMAIN body.value.f
                                  /\ body.value.f["error"].t = "dict"
                               THEN body.value.f["error"]
                               ELSE body.value

\* The classes _request raises for a response of status 400 or above.
ResponseErrors ==
    {"RateLimitError", "AuthenticationError", "NotFoundError", "ValidationError",
     "APIError"}

\* C22: a typed exception raised for a response of status 400 or above
\* carries the `hint` and the `requestId` of the response's envelope, when
\* the envelope holds them.
C22_HintAndRequestIdSurfaced ==
    (/\ Done
     /\ result.kind = "raise"
     /\ result.e.exc \in ResponseErrors
     /\ response.status_code >= 400)
        => LET envelope == _parse_error_response(response).v IN
           /\ "hint" \in DOMAIN envelope.f => result.e.hint = envelope.f["hint"]
           /\ "requestId" \in DOMAIN envelope.f =>
                  result.e.request_id = envelope.f["requestId"]

\* The generic texts _request falls back on, by status.
GenericMessages ==
    {Lit("Rate limit exceeded. Please try again later."), Lit("Rate limit exceeded"),
     Lit("Invalid API key"), Lit("Resource not found"), Lit("Validation error"),
     Lit("Server error"), Lit("API request failed")}

\* The envelope of the response holds a message that is text.
HasUsableMessage(envelope) ==
    /\ envelope.t = "dict"
    /\ "message" \in DOMAIN envelope.f
    /\ envelope.f["message"].t = "str"
    /\ envelope.f["message"].w # <<>>

\* C23: an exception of the SDK's classes that ends a call carries a message
\* that is a non-empty string; raised for a response whose envelope holds no
\* usable message, it carries one of the generic texts.
C23_MessageNeverEmpty ==
    (Done /\ result.kind = "raise" /\ result.e.exc \in TypedErrors) =>
        /\ result.e.message.t = "str"
        /\ result.e.message.w # <<>>
        /\ (/\ response.status_code >= 400
            /\ ~HasUsableMessage(_parse_error_response(response).v))
               => result.e.message \in GenericMessages

\* The methods whose payload holds a bounded field: the field, the argument
\* it is built from, and the bounds in tenths.
BoundedFields ==
    [store |-> [field |-> "priority", arg |-> "priority", lo |-> 0, hi |-> 10],
     update |-> [field |-> "priority", arg |-> "priority", lo |-> 0, hi |-> 10],
     create |-> [field |-> "priority", arg |-> "priority", lo |-> 0, hi |-> 10],
     record |-> [field |-> "confidence", arg |-> "confidence", lo |-> 0, hi |-> 10],
     resolve |-> [field |-> "new_confidence", arg |-> "new_confidence",
                  lo |-> 0, hi |-> 10],
     update_progress |-> [field |-> "progress", arg |-> "progress",
                          lo |-> 0, hi |-> 1000]]

\* The method called last handed a payload holding its bounded field to
\* _request.
SendsBoundedField ==
    /\ op.name \in DOMAIN BoundedFields
    /\ op.at = "request"
    /\ BoundedFields[op.name].field \in DOMAIN payload.f

C25_ConcurrentCallsIndependent ==
    \A t \in Threads :
        threads[t].pc # "idle" =>
            LET alone == _request(client, threads[t].m, threads[t].outcomes, 0, None)
            IN /\ threads[t].trace = alone.trace
               /\ threads[t].pc = "done" => threads[t].result = alone.result

\* Both callers are inside the loop at once, one after its first failed
\* attempt and the other after its second, each having slept.
C25_Witness ==
    /\ threads[1].pc = "loop" /\ threads[2].pc = "loop"
    /\ Len(threads[1].outcomes) = 2 /\ Len(threads[2].outcomes) = 1
    /\ Len(threads[1].trace) = 4 /\ Len(threads[2].trace) = 2
    /\ threads[1].m = 3 /\ threads[2].m = 2

\* The seconds a reset header asks for: its decimal value, 60 when it is
\* absent or is no decimal integer string.
ResetSeconds(h) == IF IsDecimalString(h) THEN DecimalValue(h.value.w) ELSE 60

\* C26: in the trace of a call, HTTP calls and sleeps alternate, the first
\* event is an HTTP call and so is the last once the call has ended (one
\* sleep fewer than HTTP calls); a sleep follows a 429, a 5xx, a timeout or
\* a connection failure only, and after the HTTP call of attempt index a it
\* lasts min(reset, 60) seconds if that call ended in 429 and 2^a seconds
\* otherwise, whatever the attempts before it ended in.
C26_AttemptsAndSleepsAlternate ==
    /\ Len(trace) > 0 => trace[1].ev = "request"
    /\ \A i \in 1..(Len(trace) - 1) : trace[i].ev # trace[i + 1].ev
    /\ (Done /\ Len(trace) > 0) =>
           /\ trace[Len(trace)].ev = "request"
           /\ Len(Sleeps) = Calls - 1
    /\ \A i \in 2..Len(trace) :
           trace[i].ev = "sleep" =>
               LET e == trace[i - 1] IN
               /\ Is429(e) \/ Is5xx(e) \/ IsTransportFailure(e)
               /\ trace[i].secs = IF Is429(e) THEN min(ResetSeconds(e.reset), 60)
                                  ELSE 2 ^ AttemptIndex(i - 1)

\* A 429 with a reset of 5 s, then a 500, then a third HTTP call ended the
\* call: the sleeps lasted 5 s and 2 s.
C26_Witness ==
    /\ Done
    /\ Calls = 3
    /\ Is429(Requests[1]) /\ Requests[1].reset = Present(<<"5">>)
    /\ Is5xx(Requests[2])
    /\ SleepSecs = <<5, 2>>

\* C27: when a call has made max_retries HTTP calls and each ended in a 429,
\* a 5xx, a timeout or a connection failure, it raises the exception of the
\* last one: RateLimitError after a 429, APIError with the response's status
\* after a 5xx, RecallBricksError with code TIMEOUT after a timeout and with
\* code CONNECTION_ERROR after a connection failure.
C27_LastAttemptDecides ==
    (/\ Done
     /\ max_retries >= 1
     /\ Calls = max_retries
     /\ \A i \in 1..Calls : IsRetryable(Requests[i]))
        => LET last == Requests[Calls] IN
           /\ result.kind = "raise"
           /\ Is429(last) => result.e.exc = "RateLimitError"
           /\ Is5xx(last) => /\ result.e.exc = "APIError"
                             /\ result.e.status_code = PyInt(last.status_code)
           /\ IsTransportFailure(last) =>
                  /\ result.e.exc = "RecallBricksError"
                  /\ result.e.code = Lit(TransportCode(last.kind))

\* C28: every HTTP request that save, learn or recall issues on a client
\* constructed with a service token carries a payload whose user_id is a
\* non-empty string.
C28_ServiceTokenRequestsCarryUserId ==
    (/\ op.name \in {"save", "learn", "recall"}
     /\ truthy(service_token)
     /\ Calls >= 1)
        => /\ "user_id" \in DOMAIN payload.f
           /\ payload.f["user_id"].t = "str"
           /\ payload.f["user_id"].w # <<>>

\* Two results are of the same kind: both none, the same value returned, or
\* exceptions of the same class with the same code and status_code.
SameResult(r, b) ==
    /\ r.kind = b.kind
    /\ r.kind = "return" => r.value = b.value
    /\ r.kind = "raise" =>
           /\ r.e.exc = b.e.exc
           /\ r.e.code = b.e.code
           /\ r.e.status_code = b.e.status_code

\* C29: called with the same max_retries >= 1 and given the same transport
\* outcomes, RecallBricks._request and BaseAutonomousClient._request issue
\* the same HTTP calls and sleep the same durations in the same order, end
\* together, and end alike: the same value returned, or an exception of the
\* same class with the same code and status_code.
C29_ClassesBehaveAlike ==
    threads["RecallBricks"].m >= 1 =>
        /\ threads["RecallBricks"].pc = threads["BaseAutonomousClient"].pc
        /\ threads["RecallBricks"].trace = threads["BaseAutonomousClient"].trace
        /\ SameResult(threads["RecallBricks"].result,
                      threads["BaseAutonomousClient"].result)

\* Both calls slept 1 s after a timeout and 5 s after a 429, and raised
\* after a third attempt that ended in a connection failure.
C29_Witness ==
    /\ \A c \in Clients :
           /\ threads[c].pc = "done"
           /\ threads[c].m = 3
           /\ Len(threads[c].trace) = 5
           /\ threads[c].trace[1].kind = "Timeout"
           /\ threads[c].trace[2] = SleepEvent(1)
           /\ threads[c].trace[4] = SleepEvent(5)
           /\ threads[c].result.kind = "raise"
           /\ threads[c].result.e.code = Lit("CONNECTION_ERROR")
    /\ threads["RecallBricks"].result # threads["BaseAutonomousClient"].result

\* C30: the retry_after of a RateLimitError that ends a call is the
\* X-RateLimit-Reset header of the response the call ended on, as the
\* string received, and the string '60' when that response has no such
\* header; it is not the wait of at most 60 s the client sleeps.
C30_RetryAfterIsRawHeader ==
    RaisedExc("RateLimitError") =>
        /\ response.status_code = 429
        /\ result.e.retry_after =
               IF response.reset.present THEN response.reset.value
               ELSE Str(<<"6", "0">>)

\* Three 429 responses with a reset of 9999 s: the client slept 60 s twice
\* and the RateLimitError carries '9999'.
C30_Witness ==
    /\ RaisedExc("RateLimitError")
    /\ Calls = 3
    /\ SleepSecs = <<60, 60>>
    /\ response.reset = Present(<<"9", "9", "9", "9">>)
    /\ result.e.retry_after = Str(<<"9", "9", "9", "9">>)

====
